---- MODULE Spec2Model ----
(***************************************************************************)
(* The migration engine of fas (src/fas/util/database/tasks.py): the       *)
(* orchestrator _migrate, execute_migration_scripts, the ledger table      *)
(* database_migration with its CHECK and EXCLUDE constraints, and the      *)
(* advisory lock keyed by MIGRATION_LOCK_KEY.                              *)
(*                                                                         *)
(* Every orchestrator run is one operating-system process with one         *)
(* database session and one transaction.  The database keeps the committed *)
(* state (tableExists, ledger, applied); what a transaction wrote and has  *)
(* not committed is kept per run (txTable, executed, txRows).              *)
(***************************************************************************)
EXTENDS Integers, Sequences, FiniteSets, TLC

\* ---------------------------------------------------------------- bounds
NumProcs == 2
MaxVersion == 3
MaxSeed == 1
MaxInserts == 2
MaxRangeEnd == 5

Procs == 1..NumProcs
Versions == 1..MaxVersion
HashSeeds == 0..MaxSeed
RangeEnds == 0..MaxRangeEnd

VARIABLES
    scripts,          \* versions that have a script file on disk
    tableExists,      \* committed: table database_migration exists
    ledger,           \* committed rows of database_migration
    nextId,           \* the identity sequence of column id (not transactional)
    applied,          \* committed script effects: version -> times applied
    locks,            \* advisory locks held: records [key, owner]
    pc,               \* position of each run
    hashseed,         \* the str hash secret of the run's interpreter
    locked,           \* _migrate's local `locked`
    current_version,  \* _migrate's local `current_version`
    new_versions,     \* keys of _migrate's local `new_versions`
    to_version,       \* _migrate's local `to_version`
    position,         \* iterations of the for loop already left behind
    txTable,          \* this transaction created the table
    executed,         \* versions this run's db.execute ran successfully
    txRows,           \* rows this run's db.insert wrote
    failed,           \* versions whose script execution raised in this run
    err,              \* the failure the run ended with, "none" if none
    inserts,          \* direct inserts (outside the orchestrator) so far
    lastInsert,       \* the last direct insert and its outcome
    txDepth,          \* transactional calls open on the run's connection
    printed,          \* the messages the run has printed, in order
    env,              \* ENV: the environment the commands run in
    dbExists          \* the database exists

vars == <<scripts, tableExists, ledger, nextId, applied, locks, pc, hashseed,
          locked, current_version, new_versions, to_version, position, txTable,
          executed, txRows, failed, err, inserts, lastInsert, txDepth,
          printed, env, dbExists>>

dbVars == <<tableExists, ledger, applied>>
localVars == <<current_version, new_versions, to_version, position>>
directVars == <<inserts, lastInsert>>
callVars == <<txDepth, printed>>
commandVars == <<env, dbExists>>

\* ------------------------------------------------------- pure definitions
MIGRATION_TABLE == "database_migration"

\* Python's hash() of a str is keyed by a secret the interpreter draws when it
\* starts (PYTHONHASHSEED unset): the value depends on the secret and the text.
PyHash(secret, text) == <<secret, text>>

MIGRATION_LOCK_KEY(secret) ==
    PyHash(secret, "i48gEtCCfX1lxPpWgVyBYH1z4VQpFNz7+" \o MIGRATION_TABLE)

Max(S) == CHOOSE x \in S : \A y \in S : y <= x

Min(S) == CHOOSE x \in S : \A y \in S : x <= y

\* a variant that selects from_version instead of to_version
CurrentVersionFromColumn(rows) ==
    IF rows = {} THEN 0
    ELSE LET last == CHOOSE r \in rows : \A s \in rows : s.id <= r.id
         IN  last.from_version

\* SELECT to_version FROM database_migration ORDER BY id DESC LIMIT 1, then
\* `or 0`: no row (None) and a to_version of 0 both give 0
CurrentVersion(rows) ==
    IF rows = {} THEN 0
    ELSE LET last == CHOOSE r \in rows : \A s \in rows : s.id <= r.id
         IN  IF last.to_version = 0 THEN 0 ELSE last.to_version

\* load_versions(after=...): the scripts whose version is greater than `after`
load_versions(after) == {v \in scripts : v > after}

\* to_version = max(new_versions)
TargetVersionMin(vs) == Min(vs)

TargetVersion(vs) == Max(vs)

\* range(from_version + 1, to_version + 1), as the sequence it iterates
VersionRangeShort(from, to) == [i \in 1..(to - from - 1) |-> from + i]

VersionRange(from, to) == [i \in 1..(to - from) |-> from + i]

\* CHECK (to_version > from_version)
CheckConstraint(from, to) == to > from

\* NUMRANGE(a, b, '(]') && NUMRANGE(c, d, '(]') for non-empty ranges
RangesOverlapNever(from1, to1, from2, to2) == FALSE

RangesOverlapSameStart(from1, to1, from2, to2) == from1 = from2

RangesOverlap(from1, to1, from2, to2) == from1 < to2 /\ from2 < to1

\* EXCLUDE USING GIST (... WITH &&) against a set of rows
ExclusionConflict(from, to, rows) ==
    \E r \in rows : RangesOverlap(from, to, r.from_version, r.to_version)

Terminal == {"ABORTED_NO_LOCK", "NOOP", "DONE", "FAILED"}
InFlight == {"START", "LOCK_ATTEMPTED", "TABLE_ENSURED", "VERSIONS_LOADED", "APPLYING"}

InTx(p) == pc[p] \in InFlight

\* rows other open transactions inserted and have not committed
UncommittedRowsOfOthers(p) == UNION {txRows[q] : q \in {r \in Procs \ {p} : InTx(r)}}

Count(seq, v) == Cardinality({i \in 1..Len(seq) : seq[i] = v})

\* ------------------------------------------------------------ transactions
\* pg_try_advisory_xact_lock(key): granted unless another session holds `key`
TryTransactionLock(p, key) == ~ \E l \in locks : l.key = key /\ l.owner # p

\* a variant in which the end of a transaction leaves its advisory locks held
ReleaseLocksNever(p) == locks' = locks

\* the end of p's transaction releases its transaction-level advisory locks
ReleaseLocks(p) == locks' = {l \in locks : l.owner # p}

\* transactional: normal return of the outermost call commits p's writes
TxCommit(p) ==
    /\ tableExists' = (tableExists \/ txTable[p])
    /\ ledger' = ledger \cup txRows[p]
    /\ applied' = [v \in DOMAIN applied |-> applied[v] + Count(executed[p], v)]
    /\ ReleaseLocks(p)

\* a variant of transactional that commits also when the call raises
TxRollbackKeepsWrites(p) == TxCommit(p)

\* transactional: a raised failure rolls p's writes back and is re-raised
TxRollback(p) ==
    /\ UNCHANGED dbVars
    /\ ReleaseLocks(p)

\* a variant of transactional in which every call commits when it returns
TxReturnEachCommits(p) ==
    /\ TxCommit(p)
    /\ txDepth' = [txDepth EXCEPT ![p] = @ - 1]

\* transactional: a call returns normally; a call that joined an open
\* transaction leaves it open, the call that opened it commits
TxReturn(p) ==
    /\ IF txDepth[p] = 1 THEN TxCommit(p) ELSE UNCHANGED <<dbVars, locks>>
    /\ txDepth' = [txDepth EXCEPT ![p] = @ - 1]

\* ------------------------------------------------------------------ actions
\* The secret each process's interpreter draws when it starts.  The draws do
\* not depend on the state and only their equality is ever observed, so they
\* are fixed up front and numbered in the order of the processes: a process
\* shares the secret of an earlier one or takes the next number.
SecretDraws ==
    {f \in [Procs -> HashSeeds] :
        \A p \in Procs : \A s \in 0..(f[p] - 1) : \E q \in 1..(p - 1) : f[q] = s}

\* the database is new, or an earlier migrate that found no script has left the
\* empty table behind; no run has begun
InitRuns ==
    /\ scripts = {}
    /\ tableExists \in BOOLEAN
    /\ ledger = {}
    /\ nextId = 1
    /\ applied = [v \in Versions |-> 0]
    /\ locks = {}
    /\ hashseed \in SecretDraws
    /\ locked = [p \in Procs |-> FALSE]
    /\ current_version = [p \in Procs |-> 0]
    /\ new_versions = [p \in Procs |-> {}]
    /\ to_version = [p \in Procs |-> 0]
    /\ position = [p \in Procs |-> 0]
    /\ txTable = [p \in Procs |-> FALSE]
    /\ executed = [p \in Procs |-> <<>>]
    /\ txRows = [p \in Procs |-> {}]
    /\ failed = [p \in Procs |-> {}]
    /\ err = [p \in Procs |-> "none"]
    /\ inserts = 0
    /\ lastInsert = [n |-> 0, from_version |-> 0, to_version |-> 0, ok |-> FALSE]
    /\ txDepth = [p \in Procs |-> 0]
    /\ printed = [p \in Procs |-> <<>>]

\* every process is at line 61, about to call asyncio.run(_migrate_database(...)):
\* its migrate command is past the checks and the database exists (the
\* environment plays no part from here on)
Init ==
    /\ InitRuns
    /\ pc = [p \in Procs |-> "IDLE"]
    /\ env = "prod"
    /\ dbExists = TRUE

\* a new migration script file appears in the scripts directory
AddScript(v) ==
    /\ v \notin scripts
    /\ scripts' = scripts \cup {v}
    /\ UNCHANGED <<dbVars, nextId, locks, pc, hashseed, locked, localVars,
                   txTable, executed, txRows, failed, err, directVars, commandVars, callVars>>

\* `invoke db.migrate`: a fresh interpreter imports the module (line 124 takes
\* the hash under this interpreter's secret, hashseed[p]), takes a connection and enters
\* _migrate's transactional scope; every process runs the command once
StartRun(p) ==
    /\ pc[p] = "IDLE"
    /\ pc' = [pc EXCEPT ![p] = "START"]
    /\ locked' = [locked EXCEPT ![p] = FALSE]
    /\ current_version' = [current_version EXCEPT ![p] = 0]
    /\ new_versions' = [new_versions EXCEPT ![p] = {}]
    /\ to_version' = [to_version EXCEPT ![p] = 0]
    /\ position' = [position EXCEPT ![p] = 0]
    /\ txTable' = [txTable EXCEPT ![p] = FALSE]
    /\ executed' = [executed EXCEPT ![p] = <<>>]
    /\ txRows' = [txRows EXCEPT ![p] = {}]
    /\ failed' = [failed EXCEPT ![p] = {}]
    /\ err' = [err EXCEPT ![p] = "none"]
    /\ txDepth' = [txDepth EXCEPT ![p] = 1]
    /\ printed' = [printed EXCEPT ![p] = <<>>]
    /\ UNCHANGED <<scripts, dbVars, nextId, locks, hashseed, directVars, commandVars>>

\* a variant that takes the lock with a call that waits for it
TryLockBlocking(p) ==
    /\ pc[p] = "START"
    /\ TryTransactionLock(p, MIGRATION_LOCK_KEY(hashseed[p]))
    /\ locked' = [locked EXCEPT ![p] = TRUE]
    /\ locks' = locks \cup {[key |-> MIGRATION_LOCK_KEY(hashseed[p]), owner |-> p]}
    /\ pc' = [pc EXCEPT ![p] = "LOCK_ATTEMPTED"]
    /\ UNCHANGED <<scripts, dbVars, nextId, hashseed, localVars, txTable,
                   executed, txRows, failed, err, directVars, commandVars, callVars>>

\* locked = await db.try_transaction_lock(MIGRATION_LOCK_KEY)
TryLock(p) ==
    /\ pc[p] = "START"
    /\ LET key == MIGRATION_LOCK_KEY(hashseed[p])
           got == TryTransactionLock(p, key)
       IN  /\ locked' = [locked EXCEPT ![p] = got]
           /\ locks' = IF got THEN locks \cup {[key |-> key, owner |-> p]} ELSE locks
    /\ pc' = [pc EXCEPT ![p] = "LOCK_ATTEMPTED"]
    /\ UNCHANGED <<scripts, dbVars, nextId, hashseed, localVars, txTable,
                   executed, txRows, failed, err, directVars, commandVars, callVars>>

\* a variant that reports a refused lock with the message of the no-op branch
AbortNoLockSaysNoop(p) ==
    /\ pc[p] = "LOCK_ATTEMPTED"
    /\ ~ locked[p]
    /\ printed' = [printed EXCEPT ![p] = Append(@, "no scripts after version")]
    /\ TxReturn(p)
    /\ pc' = [pc EXCEPT ![p] = "ABORTED_NO_LOCK"]
    /\ UNCHANGED <<scripts, nextId, hashseed, locked, localVars, txTable,
                   executed, txRows, failed, err, directVars, commandVars>>

\* if not locked: print(...); return      (the empty transaction commits)
AbortNoLock(p) ==
    /\ pc[p] = "LOCK_ATTEMPTED"
    /\ ~ locked[p]
    /\ printed' = [printed EXCEPT ![p] = Append(@, "cannot run migration in parallel")]
    /\ TxReturn(p)
    /\ pc' = [pc EXCEPT ![p] = "ABORTED_NO_LOCK"]
    /\ UNCHANGED <<scripts, nextId, hashseed, locked, localVars, txTable,
                   executed, txRows, failed, err, directVars, commandVars>>

\* a variant that goes on to the table without testing `locked`
EnsureTableUnlocked(p) ==
    /\ pc[p] = "LOCK_ATTEMPTED"
    /\ tableExists \/ ~ \E q \in Procs \ {p} : InTx(q) /\ txTable[q]
    /\ txTable' = [txTable EXCEPT ![p] = ~ tableExists]
    /\ pc' = [pc EXCEPT ![p] = "TABLE_ENSURED"]
    /\ UNCHANGED <<scripts, dbVars, nextId, locks, hashseed, locked, localVars,
                   executed, txRows, failed, err, directVars, commandVars, callVars>>

\* await create_database_migration_table_if_not_exist(db)
\* CREATE TABLE IF NOT EXISTS waits while another open transaction has created
\* the table and not yet committed; the statement is taken once that ended.
EnsureTable(p) ==
    /\ pc[p] = "LOCK_ATTEMPTED"
    /\ locked[p]
    /\ tableExists \/ ~ \E q \in Procs \ {p} : InTx(q) /\ txTable[q]
    /\ txTable' = [txTable EXCEPT ![p] = ~ tableExists]
    /\ pc' = [pc EXCEPT ![p] = "TABLE_ENSURED"]
    /\ UNCHANGED <<scripts, dbVars, nextId, locks, hashseed, locked, localVars,
                   executed, txRows, failed, err, directVars, commandVars, callVars>>

\* current_version = await db.get_scalar(...) or 0
\* new_versions = load_versions(after=current_version)
LoadVersions(p) ==
    /\ pc[p] = "TABLE_ENSURED"
    /\ LET cur == CurrentVersion(ledger \cup txRows[p])
       IN  /\ current_version' = [current_version EXCEPT ![p] = cur]
           /\ new_versions' = [new_versions EXCEPT ![p] = load_versions(cur)]
    /\ pc' = [pc EXCEPT ![p] = "VERSIONS_LOADED"]
    /\ UNCHANGED <<scripts, dbVars, nextId, locks, hashseed, locked, to_version,
                   position, txTable, executed, txRows, failed, err,
                   directVars, commandVars, callVars>>

\* if not new_versions: print(...); return      (the transaction commits)
Noop(p) ==
    /\ pc[p] = "VERSIONS_LOADED"
    /\ new_versions[p] = {}
    /\ printed' = [printed EXCEPT ![p] = Append(@, "no scripts after version")]
    /\ TxReturn(p)
    /\ pc' = [pc EXCEPT ![p] = "NOOP"]
    /\ UNCHANGED <<scripts, nextId, hashseed, locked, localVars, txTable,
                   executed, txRows, failed, err, directVars, commandVars>>

\* to_version = max(new_versions); the call of execute_migration_scripts, which
\* joins the open transaction
BeginApply(p) ==
    /\ pc[p] = "VERSIONS_LOADED"
    /\ new_versions[p] # {}
    /\ to_version' = [to_version EXCEPT ![p] = TargetVersion(new_versions[p])]
    /\ position' = [position EXCEPT ![p] = 0]
    /\ printed' = [printed EXCEPT ![p] = Append(@, "Be about to migrate")]
    /\ txDepth' = [txDepth EXCEPT ![p] = 2]
    /\ pc' = [pc EXCEPT ![p] = "APPLYING"]
    /\ UNCHANGED <<scripts, dbVars, nextId, locks, hashseed, locked,
                   current_version, new_versions, txTable, executed, txRows,
                   failed, err, directVars, commandVars>>

\* the versions the for loop of execute_migration_scripts walks
LoopRange(p) == VersionRange(current_version[p], to_version[p])

InLoop(p) == pc[p] = "APPLYING" /\ position[p] < Len(LoopRange(p))

LoopVersion(p) == LoopRange(p)[position[p] + 1]

\* the run ends with failure `e`: rollback, the failure reaches the caller
Fail(p, e) ==
    /\ TxRollback(p)
    /\ err' = [err EXCEPT ![p] = e]
    /\ pc' = [pc EXCEPT ![p] = "FAILED"]
    /\ txDepth' = [txDepth EXCEPT ![p] = 0]

\* await db.execute(versions[version].read_text(...)) runs the script
ExecuteScript(p) ==
    /\ InLoop(p)
    /\ LoopVersion(p) \in new_versions[p]
    /\ executed' = [executed EXCEPT ![p] = Append(@, LoopVersion(p))]
    /\ printed' = [printed EXCEPT ![p] = Append(@, "Applying version")]
    /\ position' = [position EXCEPT ![p] = @ + 1]
    /\ UNCHANGED <<scripts, dbVars, nextId, locks, pc, hashseed, locked,
                   current_version, new_versions, to_version, txTable, txRows,
                   failed, err, directVars, commandVars, txDepth>>

\* a variant in which a failing script is skipped and the loop goes on
ScriptFailsSwallowed(p) ==
    /\ InLoop(p)
    /\ LoopVersion(p) \in new_versions[p]
    /\ failed' = [failed EXCEPT ![p] = @ \cup {LoopVersion(p)}]
    /\ printed' = [printed EXCEPT ![p] = Append(@, "Applying version")]
    /\ position' = [position EXCEPT ![p] = @ + 1]
    /\ UNCHANGED <<scripts, dbVars, nextId, locks, pc, hashseed, locked,
                   current_version, new_versions, to_version, txTable, executed,
                   txRows, err, directVars, commandVars, txDepth>>

\* await db.execute(...) raises: the script's SQL fails
ScriptFails(p) ==
    /\ InLoop(p)
    /\ LoopVersion(p) \in new_versions[p]
    /\ failed' = [failed EXCEPT ![p] = @ \cup {LoopVersion(p)}]
    /\ printed' = [printed EXCEPT ![p] = Append(@, "Applying version")]
    /\ Fail(p, "ScriptError")
    /\ UNCHANGED <<scripts, nextId, hashseed, locked, localVars, txTable,
                   executed, txRows, directVars, commandVars>>

\* a variant in which a version without a script is skipped
MissingVersionSkipped(p) ==
    /\ InLoop(p)
    /\ LoopVersion(p) \notin new_versions[p]
    /\ printed' = [printed EXCEPT ![p] = Append(@, "Applying version")]
    /\ position' = [position EXCEPT ![p] = @ + 1]
    /\ UNCHANGED <<scripts, dbVars, nextId, locks, pc, hashseed, locked,
                   current_version, new_versions, to_version, txTable, executed,
                   txRows, failed, err, directVars, commandVars, txDepth>>

\* versions[version] raises KeyError: no script has this version
MissingVersion(p) ==
    /\ InLoop(p)
    /\ LoopVersion(p) \notin new_versions[p]
    /\ printed' = [printed EXCEPT ![p] = Append(@, "Applying version")]
    /\ Fail(p, "MissingVersionError")
    /\ UNCHANGED <<scripts, nextId, hashseed, locked, localVars, txTable,
                   executed, txRows, failed, directVars, commandVars>>

\* the loop is over and db.insert has not run yet
AtInsert(p) ==
    /\ pc[p] = "APPLYING"
    /\ position[p] = Len(LoopRange(p))
    /\ txRows[p] = {}

\* an insert waits while a row of another open transaction conflicts with it
InsertWaits(p, from, to) ==
    /\ CheckConstraint(from, to)
    /\ ExclusionConflict(from, to, UncommittedRowsOfOthers(p))

\* a variant of the table without the EXCLUDE constraint
InsertAcceptedCheckOnly(from, to, rows) == CheckConstraint(from, to)

\* the table's constraints accept the row against the committed rows
InsertAccepted(from, to, rows) ==
    /\ CheckConstraint(from, to)
    /\ ~ ExclusionConflict(from, to, rows)

\* await db.insert('database_migration', from_version=..., to_version=...)
RecordMigration(p) ==
    /\ AtInsert(p)
    /\ ~ InsertWaits(p, current_version[p], to_version[p])
    /\ InsertAccepted(current_version[p], to_version[p], ledger)
    /\ txRows' = [txRows EXCEPT ![p] = {[id |-> nextId,
                                        from_version |-> current_version[p],
                                        to_version |-> to_version[p]]}]
    /\ nextId' = nextId + 1
    /\ UNCHANGED <<scripts, dbVars, locks, pc, hashseed, locked, localVars,
                   txTable, executed, failed, err, directVars, commandVars, callVars>>

\* db.insert raises: a constraint of the table rejects the row
RecordRejected(p) ==
    /\ AtInsert(p)
    /\ ~ InsertWaits(p, current_version[p], to_version[p])
    /\ ~ InsertAccepted(current_version[p], to_version[p], ledger)
    /\ nextId' = nextId + 1
    /\ Fail(p, "OverlapViolation")
    /\ UNCHANGED <<scripts, hashseed, locked, localVars, txTable, executed,
                   txRows, failed, directVars, commandVars, printed>>

\* execute_migration_scripts returns into _migrate
ReturnInner(p) ==
    /\ pc[p] = "APPLYING"
    /\ position[p] = Len(LoopRange(p))
    /\ txRows[p] # {}
    /\ txDepth[p] = 2
    /\ TxReturn(p)
    /\ UNCHANGED <<scripts, nextId, pc, hashseed, locked, localVars, txTable,
                   executed, txRows, failed, err, directVars, commandVars, printed>>

\* print(t.green('Migrated ...')) and _migrate returns: the transaction commits
CommitRun(p) ==
    /\ pc[p] = "APPLYING"
    /\ position[p] = Len(LoopRange(p))
    /\ txRows[p] # {}
    /\ txDepth[p] = 1
    /\ printed' = [printed EXCEPT ![p] = Append(@, "Migrated")]
    /\ TxReturn(p)
    /\ pc' = [pc EXCEPT ![p] = "DONE"]
    /\ UNCHANGED <<scripts, nextId, hashseed, locked, localVars, txTable,
                   executed, txRows, failed, err, directVars, commandVars>>

\* an insert into database_migration by a session that is not the orchestrator,
\* committed at once; ids only order the rows, so the ids rejected inserts use
\* up are left out
DirectInsert(from, to) ==
    /\ tableExists
    /\ inserts < MaxInserts
    /\ ~ (CheckConstraint(from, to)
          /\ ExclusionConflict(from, to, UNION {txRows[q] : q \in {r \in Procs : InTx(r)}}))
    /\ LET ok == InsertAccepted(from, to, ledger)
       IN  /\ ledger' = IF ok
                        THEN ledger \cup {[id |-> nextId, from_version |-> from,
                                           to_version |-> to]}
                        ELSE ledger
           /\ nextId' = IF ok THEN nextId + 1 ELSE nextId
           /\ lastInsert' = [n |-> inserts + 1, from_version |-> from,
                             to_version |-> to, ok |-> ok]
    /\ inserts' = inserts + 1
    /\ UNCHANGED <<scripts, tableExists, applied, locks, pc, hashseed, locked,
                   localVars, txTable, executed, txRows, failed, err, callVars,
                   commandVars>>

Run(p) ==
    \/ StartRun(p)
    \/ TryLock(p)
    \/ AbortNoLock(p)
    \/ EnsureTable(p)
    \/ LoadVersions(p)
    \/ Noop(p)
    \/ BeginApply(p)
    \/ ExecuteScript(p)
    \/ ScriptFails(p)
    \/ MissingVersion(p)
    \/ RecordMigration(p)
    \/ RecordRejected(p)
    \/ ReturnInner(p)
    \/ CommitRun(p)

Next ==
    \/ \E v \in Versions : AddScript(v)
    \/ \E p \in Procs : Run(p)

Spec == Init /\ [][Next]_vars

NextLedger ==
    \/ Next
    \/ \E from \in RangeEnds, to \in RangeEnds : DirectInsert(from, to)

\* await create_database_migration_table_if_not_exist(db) raises: the
\* statement fails in the database
EnsureTableFails(p) ==
    /\ pc[p] = "LOCK_ATTEMPTED"
    /\ locked[p]
    /\ Fail(p, "DatabaseError")
    /\ UNCHANGED <<scripts, nextId, hashseed, locked, localVars, txTable,
                   executed, txRows, failed, directVars, commandVars, printed>>

\* await db.get_scalar(...) or load_versions(...) raises
LoadVersionsFails(p) ==
    /\ pc[p] = "TABLE_ENSURED"
    /\ Fail(p, "DatabaseError")
    /\ UNCHANGED <<scripts, nextId, hashseed, locked, localVars, txTable,
                   executed, txRows, failed, directVars, commandVars, printed>>

\* the runs with statements that fail before the scripts are reached
NextFaults ==
    \/ Next
    \/ \E p \in Procs : EnsureTableFails(p) \/ LoadVersionsFails(p)

SpecFaults == Init /\ [][NextFaults]_vars

\* the process of a run dies, or its connection is lost, inside the
\* transaction: the server ends the session and rolls the transaction back
Crash(p) ==
    /\ InTx(p)
    /\ TxRollback(p)
    /\ pc' = [pc EXCEPT ![p] = "CRASHED"]
    /\ txDepth' = [txDepth EXCEPT ![p] = 0]
    /\ UNCHANGED <<scripts, nextId, hashseed, locked, localVars, txTable,
                   executed, txRows, failed, err, directVars, commandVars, printed>>

NextCrash ==
    \/ NextFaults
    \/ \E p \in Procs : Crash(p)

SpecCrash == Init /\ [][NextCrash]_vars

Envs == {"dev", "test", "prod"}

\* `invoke db.migrate` is called in every process; the table can only exist in
\* a database that exists
InitCommand ==
    /\ InitRuns
    /\ pc = [p \in Procs |-> "MIGRATE"]
    /\ env \in Envs
    /\ dbExists \in (IF tableExists THEN {TRUE} ELSE BOOLEAN)

\* if not (ENV.is_dev or ENV.is_test) is false: the checks are skipped
SkipChecks(p) ==
    /\ pc[p] = "MIGRATE"
    /\ env \in {"dev", "test"}
    /\ pc' = [pc EXCEPT ![p] = "CHECKED"]
    /\ UNCHANGED <<scripts, dbVars, nextId, locks, hashseed, locked, localVars,
                   txTable, executed, txRows, failed, err, directVars,
                   commandVars, callVars>>

\* check_no_scripts_not_locked() returns
CheckNoScriptsNotLocked(p) ==
    /\ pc[p] = "MIGRATE"
    /\ env \notin {"dev", "test"}
    /\ pc' = [pc EXCEPT ![p] = "CHECKED_NOT_LOCKED"]
    /\ UNCHANGED <<scripts, dbVars, nextId, locks, hashseed, locked, localVars,
                   txTable, executed, txRows, failed, err, directVars,
                   commandVars, callVars>>

\* check_no_scripts_not_locked() raises: the command ends
CheckNoScriptsNotLockedFails(p) ==
    /\ pc[p] = "MIGRATE"
    /\ env \notin {"dev", "test"}
    /\ pc' = [pc EXCEPT ![p] = "GUARD_FAILED"]
    /\ err' = [err EXCEPT ![p] = "UnlockedScriptError"]
    /\ UNCHANGED <<scripts, dbVars, nextId, locks, hashseed, locked, localVars,
                   txTable, executed, txRows, failed, directVars, commandVars,
                   callVars>>

\* check_no_locked_scripts_changed() returns
CheckNoLockedScriptsChanged(p) ==
    /\ pc[p] = "CHECKED_NOT_LOCKED"
    /\ pc' = [pc EXCEPT ![p] = "CHECKED"]
    /\ UNCHANGED <<scripts, dbVars, nextId, locks, hashseed, locked, localVars,
                   txTable, executed, txRows, failed, err, directVars,
                   commandVars, callVars>>

\* check_no_locked_scripts_changed() raises: the command ends
CheckNoLockedScriptsChangedFails(p) ==
    /\ pc[p] = "CHECKED_NOT_LOCKED"
    /\ pc' = [pc EXCEPT ![p] = "GUARD_FAILED"]
    /\ err' = [err EXCEPT ![p] = "LockedScriptModifiedError"]
    /\ UNCHANGED <<scripts, dbVars, nextId, locks, hashseed, locked, localVars,
                   txTable, executed, txRows, failed, directVars, commandVars,
                   callVars>>

\* a variant of the command that creates the database before the checks
CreateDatabaseFirst(p) ==
    /\ pc[p] \in {"MIGRATE", "CHECKED"}
    /\ dbExists' = TRUE
    /\ pc' = [pc EXCEPT ![p] = "IDLE"]
    /\ UNCHANGED <<scripts, dbVars, nextId, locks, hashseed, locked, localVars,
                   txTable, executed, txRows, failed, err, directVars, env,
                   callVars>>

\* create_database_if_not_exist(c): createdb unless the database exists
create_database_if_not_exist(p) ==
    /\ pc[p] = "CHECKED"
    /\ dbExists' = TRUE
    /\ pc' = [pc EXCEPT ![p] = "IDLE"]
    /\ UNCHANGED <<scripts, dbVars, nextId, locks, hashseed, locked, localVars,
                   txTable, executed, txRows, failed, err, directVars, env,
                   callVars>>

\* migrate_database up to line 61, where the run of _migrate_database begins
migrate_database(p) ==
    \/ SkipChecks(p)
    \/ CheckNoScriptsNotLocked(p)
    \/ CheckNoScriptsNotLockedFails(p)
    \/ CheckNoLockedScriptsChanged(p)
    \/ CheckNoLockedScriptsChangedFails(p)
    \/ create_database_if_not_exist(p)

NextCommand ==
    \/ Next
    \/ \E p \in Procs : migrate_database(p)

SpecCommand == InitCommand /\ [][NextCommand]_vars

\* the table exists, so rows can be inserted from the first step on, and the
\* interpreters share one secret (PYTHONHASHSEED is set)
InitLedger ==
    /\ Init
    /\ tableExists
    /\ \A p \in Procs : hashseed[p] = 0

SpecLedger == InitLedger /\ [][NextLedger]_vars

\* ------------------------------------------------------------- properties
\* the integer versions a ledger row covers: (from_version, to_version]
Covered(from, to) == {v \in (from + 1)..to : TRUE}

Started(p) == pc[p] # "IDLE"

HoldsLock(p) == InTx(p) /\ locked[p]

NoWrites(p) == ~ txTable[p] /\ executed[p] = <<>> /\ txRows[p] = {}

\* the step is p's: it moves p or changes what p's transaction holds
StepOf(p) ==
    \/ pc'[p] # pc[p]
    \/ position'[p] # position[p]
    \/ txRows'[p] # txRows[p]

\* C1: when a run attempts the lock while another run holds the migration lock,
\* it is refused, and a run that was refused writes nothing: of two concurrent
\* runs only one applies the range.
C1_ConcurrentRunsOneApplies ==
    [][\A q \in Procs :
          /\ ( /\ pc[q] = "START"
               /\ pc'[q] = "LOCK_ATTEMPTED"
               /\ \E p \in Procs \ {q} : HoldsLock(p) )
             => ~ locked'[q]
          /\ (Started(q) /\ ~ locked[q]) => NoWrites(q)]_vars

\* C2: a step in which a script of the range fails ends the run in FAILED and
\* leaves the committed ledger, currentVersion(), the table and the committed
\* script effects as they were; no earlier step of the run committed anything.
C2_ScriptFailureRollsBack ==
    [][\A p \in Procs :
          /\ failed'[p] # {} =>
                /\ pc'[p] = "FAILED"
                /\ txRows'[p] = {}
          /\ (StepOf(p) /\ pc'[p] \in InFlight \cup {"FAILED"}) =>
                /\ ledger' = ledger
                /\ applied' = applied
                /\ tableExists' = tableExists
                /\ CurrentVersion(ledger') = CurrentVersion(ledger)]_vars

\* a script in the middle of the range 1..3 failed after script 1 had run
C2_Witness ==
    \E p \in Procs :
        /\ pc[p] = "FAILED"
        /\ err[p] = "ScriptError"
        /\ failed[p] = {2}
        /\ to_version[p] = 3
        /\ executed[p] = <<1>>
        /\ applied[1] = 0
        /\ ledger = {}

\* C3: the step that ends a run in DONE leaves currentVersion() equal to the
\* greatest version among the scripts the run found pending.
C3_DoneReachesMaxPending ==
    [][\A p \in Procs :
          (pc[p] # "DONE" /\ pc'[p] = "DONE") =>
              /\ new_versions[p] # {}
              /\ \A v \in new_versions[p] : v <= CurrentVersion(ledger')
              /\ CurrentVersion(ledger') \in new_versions[p]]_vars

C3_Witness ==
    \E p \in Procs :
        /\ pc[p] = "DONE"
        /\ Cardinality(new_versions[p]) >= 2
        /\ current_version[p] > 0
        /\ CurrentVersion(ledger) = to_version[p]

\* C4: every version's script is applied by committed transactions at most
\* once, and exactly once when the version is at or below the committed
\* current version.
C4_AppliedAtMostOnce ==
    \A v \in Versions :
        /\ applied[v] <= 1
        /\ (v <= CurrentVersion(ledger)) <=> (applied[v] = 1)

\* one run committed and a concurrent run of the same range was turned away
C4_Witness ==
    \E p \in Procs, q \in Procs :
        /\ pc[p] = "DONE"
        /\ pc[q] = "FAILED"
        /\ err[q] = "OverlapViolation"
        /\ executed[q] # <<>>
        /\ \A v \in Versions : applied[v] = Count(executed[p], v)

\* C5: at most one run is between a granted try_transaction_lock and the end
\* of its transaction.
C5_AtMostOneLockHolder ==
    Cardinality({p \in Procs : HoldsLock(p)}) <= 1

\* C6: every process that runs the orchestrator computes the same lock key.
C6_SameKeyEveryProcess ==
    \A p \in Procs, q \in Procs :
        (Started(p) /\ Started(q)) =>
            MIGRATION_LOCK_KEY(hashseed[p]) = MIGRATION_LOCK_KEY(hashseed[q])

\* C7: every ledger row has to_version > from_version, and no version is
\* covered by two rows, whoever inserted them.
C7_LedgerIntervalsDisjoint ==
    /\ \A r \in ledger : r.to_version > r.from_version
    /\ \A r \in ledger, s \in ledger :
          r # s => Covered(r.from_version, r.to_version)
                       \cap Covered(s.from_version, s.to_version) = {}

\* a ledger of three rows, written by the orchestrator and by direct inserts
C7_Witness ==
    /\ Cardinality(ledger) >= 3
    /\ \E p \in Procs : pc[p] = "DONE" /\ txRows[p] \subseteq ledger
    /\ lastInsert.ok

\* C8: a direct insert of (from, to) is accepted exactly when to > from and
\* (from, to] shares no version with a committed row; accepted, it adds that one
\* row; rejected, it leaves the ledger as it was.
C8_InsertAcceptedIffDisjoint ==
    [][inserts' # inserts =>
          LET r == lastInsert'
              fits == /\ r.to_version > r.from_version
                      /\ \A s \in ledger :
                            Covered(r.from_version, r.to_version)
                                \cap Covered(s.from_version, s.to_version) = {}
          IN  /\ r.ok <=> fits
              /\ r.ok => /\ Cardinality(ledger' \ ledger) = 1
                         /\ ledger \subseteq ledger'
                         /\ \A n \in ledger' \ ledger :
                               /\ n.from_version = r.from_version
                               /\ n.to_version = r.to_version
              /\ ~ r.ok => ledger' = ledger]_vars

\* (0,3] and (3,5] are in the ledger and the insert of (2,4] was rejected
C8_Witness ==
    /\ {<<r.from_version, r.to_version>> : r \in ledger} = {<<0, 3>>, <<3, 5>>}
    /\ lastInsert.from_version = 2
    /\ lastInsert.to_version = 4
    /\ ~ lastInsert.ok

\* the run is applying a range (current, target] in which a version has no script
GapRun(p) ==
    /\ pc[p] \in {"APPLYING", "DONE", "FAILED"}
    /\ \E v \in (current_version[p] + 1)..to_version[p] : v \notin new_versions[p]

FirstGap(p) ==
    Min({v \in (current_version[p] + 1)..to_version[p] : v \notin new_versions[p]})

\* C9: a run whose range has a gap never inserts a ledger row and never ends in
\* DONE; it ends in FAILED without a committed change, and unless a script
\* failed first, with MissingVersionError, raised at the first missing version.
C9_GapFailsWithoutRecord ==
    [][\A p \in Procs :
          GapRun(p)' =>
              /\ pc'[p] # "DONE"
              /\ txRows'[p] = {}
              /\ (pc[p] # "FAILED" /\ pc'[p] = "FAILED") =>
                    /\ UNCHANGED dbVars
                    /\ err'[p] \in {"MissingVersionError", "ScriptError"}
                    /\ failed'[p] = {} =>
                          /\ err'[p] = "MissingVersionError"
                          /\ Len(executed'[p]) = FirstGap(p)' - current_version'[p] - 1]_vars

\* scripts {1,3} at version 0: script 1 ran, version 2 was missing
C9_Witness ==
    \E p \in Procs :
        /\ pc[p] = "FAILED"
        /\ err[p] = "MissingVersionError"
        /\ current_version[p] = 0
        /\ new_versions[p] = {1, 3}
        /\ executed[p] = <<1>>
        /\ ledger = {}
        /\ applied[1] = 0

\* C10: a run executes the versions after current one by one in ascending
\* order; it inserts its single row (current, target) only when every version
\* up to target has been executed, and a run in DONE has inserted it.
C10_AscendingThenOneRecord ==
    \A p \in Procs :
        /\ \A i \in 1..Len(executed[p]) : executed[p][i] = current_version[p] + i
        /\ txRows[p] # {} =>
              /\ Len(executed[p]) = to_version[p] - current_version[p]
              /\ Cardinality(txRows[p]) = 1
              /\ \A r \in txRows[p] : /\ r.from_version = current_version[p]
                                      /\ r.to_version = to_version[p]
        /\ pc[p] = "DONE" =>
              /\ txRows[p] # {}
              /\ txRows[p] \subseteq ledger
              /\ to_version[p] = Max(new_versions[p])

\* scripts {1,2,3} on an empty ledger: executions 1,2,3 and the record (0,3)
C10_Witness ==
    \E p \in Procs :
        /\ pc[p] = "DONE"
        /\ executed[p] = <<1, 2, 3>>
        /\ {<<r.from_version, r.to_version>> : r \in ledger} = {<<0, 3>>}
        /\ CurrentVersion(ledger) = 3

\* the scripts directory holds, above p's current version, what p found there
SameScriptsAs(p) == load_versions(current_version[p]) = new_versions[p]

\* C11: once a run is DONE and the scripts are the ones it found, another run
\* that reads the version finds nothing pending; a run that found nothing
\* pending executes no script, inserts no row and ends in NOOP with the ledger
\* and currentVersion() as they were.
C11_SecondRunIsNoop ==
    [][\A q \in Procs :
          /\ \A p \in Procs \ {q} :
                ( /\ pc[p] = "DONE"
                  /\ SameScriptsAs(p)
                  /\ pc[q] = "TABLE_ENSURED"
                  /\ pc'[q] = "VERSIONS_LOADED" ) =>
                      /\ new_versions'[q] = {}
                      /\ current_version'[q] = to_version[p]
          /\ ( /\ pc[q] = "VERSIONS_LOADED"
               /\ new_versions[q] = {}
               /\ pc'[q] # pc[q] ) =>
                   /\ pc'[q] = "NOOP"
                   /\ executed'[q] = <<>>
                   /\ txRows'[q] = {}
                   /\ ledger' = ledger
                   /\ applied' = applied
                   /\ CurrentVersion(ledger') = CurrentVersion(ledger)]_vars

\* the first run applied 1..2, the second found nothing to do
C11_Witness ==
    \E p \in Procs, q \in Procs :
        /\ pc[p] = "DONE"
        /\ to_version[p] = 2
        /\ pc[q] = "NOOP"
        /\ current_version[q] = 2
        /\ SameScriptsAs(p)
        /\ Cardinality(ledger) = 1

\* C13: the lock call can always be made at once, whoever holds the lock; a
\* run that was refused can end at once and its only step is the one to
\* ABORTED_NO_LOCK, having written nothing.
C13_LockNeverBlocks ==
    \A q \in Procs :
        /\ pc[q] = "START" => ENABLED TryLock(q)
        /\ (pc[q] = "LOCK_ATTEMPTED" /\ ~ locked[q]) =>
              /\ ENABLED AbortNoLock(q)
              /\ ~ ENABLED (Run(q) /\ pc'[q] # "ABORTED_NO_LOCK")
        /\ pc[q] = "ABORTED_NO_LOCK" => (~ locked[q] /\ NoWrites(q))

\* a refused run has ended while the holder is still in its transaction
C13_Witness ==
    \E p \in Procs, q \in Procs :
        /\ pc[q] = "ABORTED_NO_LOCK"
        /\ HoldsLock(p)
        /\ pc[p] = "APPLYING"

\* the runs that ended in DONE and executed the script of version v
AppliedBy(v) == {p \in Procs : pc[p] = "DONE" /\ Count(executed[p], v) > 0}

\* C17: of two runs that both got a lock and read the same current version at
\* most one ends in DONE; a run turned away with OverlapViolation leaves no row,
\* the committed rows and script effects are those of the runs in DONE, and no
\* version is covered by two committed rows.
C17_ExclusionBacksTheLock ==
    /\ \A p \in Procs, q \in Procs :
          ( /\ p # q
            /\ locked[p] /\ locked[q]
            /\ to_version[p] > 0 /\ to_version[q] > 0
            /\ current_version[p] = current_version[q] ) =>
                ~ (pc[p] = "DONE" /\ pc[q] = "DONE")
    /\ \A q \in Procs :
          (pc[q] = "FAILED" /\ err[q] = "OverlapViolation") =>
              (txRows[q] = {} /\ executed[q] # <<>>)
    /\ ledger = UNION {txRows[p] : p \in {r \in Procs : pc[r] = "DONE"}}
    /\ \A v \in Versions : applied[v] = Cardinality(AppliedBy(v))
    /\ \A r \in ledger, s \in ledger :
          r # s => Covered(r.from_version, r.to_version)
                       \cap Covered(s.from_version, s.to_version) = {}

\* both runs held a lock and read version 0; one committed, one was rejected
C17_Witness ==
    \E p \in Procs, q \in Procs :
        /\ locked[p] /\ locked[q]
        /\ current_version[p] = current_version[q]
        /\ pc[p] = "DONE"
        /\ pc[q] = "FAILED"
        /\ err[q] = "OverlapViolation"
        /\ Len(executed[q]) >= 2
        /\ Cardinality(ledger) = 1

\* the row with the next smaller id, if there is one
Before(r, rows) == {s \in rows : s.id < r.id}

Previous(r, rows) == CHOOSE s \in Before(r, rows) : \A x \in Before(r, rows) : x.id <= s.id

\* the rows in the order of their ids form a chain that starts at 0
IsChain(rows) ==
    \A r \in rows :
        r.from_version = IF Before(r, rows) = {} THEN 0
                         ELSE Previous(r, rows).to_version

\* C20: after every step of the orchestrator runs the committed ledger is a
\* chain from 0 in the order of ids, currentVersion() is the greatest
\* to_version in it, and currentVersion() has not decreased.
C20_LedgerIsChain ==
    [][ /\ IsChain(ledger')
        /\ \A r \in ledger' : r.to_version <= CurrentVersion(ledger')
        /\ CurrentVersion(ledger') >= CurrentVersion(ledger)]_vars

\* two runs committed one after the other: (0,1] then (1,3]
C20_Witness ==
    /\ Cardinality(ledger) = 2
    /\ CurrentVersion(ledger) = 3
    /\ \E r \in ledger : r.from_version = 1 /\ r.to_version = 3

\* the failure the statement p is at raises, if it raises
RaisedBy(p) ==
    IF InLoop(p)
    THEN IF LoopVersion(p) \in new_versions[p] THEN "ScriptError"
                                                ELSE "MissingVersionError"
    ELSE "OverlapViolation"

\* C14: a step in which _migrate (wrapped by transactional) returns normally
\* commits all the writes of its transaction at once; a step in which it raises
\* commits none of them and hands the failure raised inside to the caller; no
\* other step of a run commits anything.
C14_CommitOnReturnRollbackOnRaise ==
    [][\A p \in Procs :
          /\ (InTx(p) /\ pc'[p] \in {"ABORTED_NO_LOCK", "NOOP", "DONE"}) =>
                /\ ledger' = ledger \cup txRows[p]
                /\ tableExists' = (tableExists \/ txTable[p])
                /\ \A v \in Versions :
                      applied'[v] = applied[v] + Count(executed[p], v)
                /\ err'[p] = "none"
          /\ (InTx(p) /\ pc'[p] = "FAILED") =>
                /\ dbVars' = dbVars
                /\ err'[p] = RaisedBy(p)
          /\ (pc'[p] # pc[p] /\ pc'[p] \notin Terminal) => dbVars' = dbVars]_vars

\* one run raised after its script ran and left nothing; another returned
\* normally and left the table, the script's effect and its row
C14_Witness ==
    \E p \in Procs, q \in Procs :
        /\ pc[p] = "FAILED"
        /\ executed[p] # <<>>
        /\ txTable[p]
        /\ pc[q] = "DONE"
        /\ txTable[q]
        /\ tableExists
        /\ ledger = txRows[q]
        /\ applied[1] = 1

\* C15: the return of execute_migration_scripts into _migrate commits nothing
\* and keeps the lock; committed rows and script effects change only in the
\* step in which _migrate itself returns; a failure inside the inner call
\* leaves nothing of the transaction, the table it created included.
C15_NestedCallJoinsTransaction ==
    [][/\ \A p \in Procs :
             /\ (txDepth[p] = 2 /\ txDepth'[p] = 1) =>
                   /\ dbVars' = dbVars
                   /\ locks' = locks
                   /\ HoldsLock(p)'
                   /\ txRows'[p] = txRows[p]
             /\ (txDepth[p] = 2 /\ pc'[p] = "FAILED") =>
                   /\ dbVars' = dbVars
                   /\ txTable[p] => ~ tableExists'
                   /\ txDepth'[p] = 0
                   /\ ~ \E l \in locks' : l.owner = p
       /\ (ledger' # ledger \/ applied' # applied) =>
             \E p \in Procs : /\ txDepth[p] = 1
                              /\ txDepth'[p] = 0
                              /\ pc'[p] = "DONE"]_vars

\* the inner call has returned: its row is written, nothing is committed and
\* the lock is still held; an earlier run failed inside the inner call and the
\* table it had created is gone
C15_Witness ==
    \E p \in Procs, q \in Procs :
        /\ pc[p] = "APPLYING"
        /\ txDepth[p] = 1
        /\ txRows[p] # {}
        /\ ledger = {}
        /\ \E l \in locks : l.owner = p
        /\ pc[q] = "FAILED"
        /\ txTable[q]
        /\ ~ tableExists

\* what the caller and the operator get from a run that ended: whether a
\* failure was raised, and the last message
Report(p) ==
    <<err[p] = "none",
      IF printed[p] = <<>> THEN "" ELSE printed[p][Len(printed[p])]>>

\* C16: a run that ended in ABORTED_NO_LOCK raised no failure and wrote
\* nothing, a run that ended in FAILED raised one, and two runs that ended in
\* different states report differently.
C16_LockRefusalIsNotAnError ==
    /\ \A p \in Procs :
          /\ pc[p] = "ABORTED_NO_LOCK" => (err[p] = "none" /\ NoWrites(p))
          /\ pc[p] = "FAILED" => err[p] # "none"
    /\ \A p \in Procs, q \in Procs :
          (pc[p] \in Terminal /\ pc[q] \in Terminal /\ pc[p] # pc[q]) =>
              Report(p) # Report(q)

\* one run was refused the lock, the holder then found nothing to do
C16_Witness ==
    \E p \in Procs, q \in Procs :
        /\ pc[q] = "ABORTED_NO_LOCK"
        /\ printed[q] = <<"cannot run migration in parallel">>
        /\ pc[p] = "NOOP"
        /\ printed[p] = <<"no scripts after version">>

\* C12: only a run inside its transaction owns a lock, whichever way the
\* runs before it ended (commit, no-op, rollback, crash); a lock call is
\* refused only while a run that is still inside its transaction holds the
\* same key, so after all earlier runs ended a run gets the lock.
C12_LockReleasedAtTransactionEnd ==
    [][/\ \A l \in locks' : InTx(l.owner)'
       /\ \A q \in Procs :
             (pc[q] = "START" /\ pc'[q] = "LOCK_ATTEMPTED" /\ ~ locked'[q]) =>
                 \E p \in Procs \ {q} :
                     /\ HoldsLock(p)
                     /\ MIGRATION_LOCK_KEY(hashseed[p]) = MIGRATION_LOCK_KEY(hashseed[q])]_vars

\* the runner holding the lock crashed after executing a script; a run with
\* the same key, started later, got the lock and migrated
C12_Witness ==
    \E p \in Procs, q \in Procs :
        /\ pc[p] = "CRASHED"
        /\ locked[p]
        /\ executed[p] # <<>>
        /\ hashseed[p] = hashseed[q]
        /\ locked[q]
        /\ pc[q] = "DONE"

\* the transitions of a run; a failure is possible from the table step on
Transitions ==
    {<<"IDLE", "START">>,
     <<"START", "LOCK_ATTEMPTED">>,
     <<"LOCK_ATTEMPTED", "ABORTED_NO_LOCK">>,
     <<"LOCK_ATTEMPTED", "TABLE_ENSURED">>,
     <<"TABLE_ENSURED", "VERSIONS_LOADED">>,
     <<"VERSIONS_LOADED", "NOOP">>,
     <<"VERSIONS_LOADED", "APPLYING">>,
     <<"APPLYING", "DONE">>,
     <<"APPLYING", "FAILED">>,
     <<"LOCK_ATTEMPTED", "FAILED">>,
     <<"TABLE_ENSURED", "FAILED">>,
     <<"VERSIONS_LOADED", "FAILED">>}

\* C18: a run changes state only along the transitions of the state machine
\* and never leaves a terminal state; a script has run or a row is written
\* only in a run that holds a lock, has ensured the table and is past
\* VERSIONS_LOADED; a failure, also one before APPLYING, takes the run to
\* FAILED with the error set, the lock released and nothing committed.
C18_RunFollowsStateMachine ==
    [][\A p \in Procs :
          /\ pc'[p] # pc[p] => <<pc[p], pc'[p]>> \in Transitions
          /\ pc[p] \in Terminal => pc'[p] = pc[p]
          /\ (executed'[p] # <<>> \/ txRows'[p] # {}) =>
                /\ locked'[p]
                /\ tableExists' \/ txTable'[p]
                /\ pc'[p] \in {"APPLYING", "DONE", "FAILED"}
          /\ (err'[p] # "none") <=> (pc'[p] = "FAILED")
          /\ (pc[p] # "FAILED" /\ pc'[p] = "FAILED") =>
                /\ dbVars' = dbVars
                /\ ~ \E l \in locks' : l.owner = p]_vars

\* one run failed before APPLYING, with nothing printed or executed; another
\* went all the way to DONE
C18_Witness ==
    \E p \in Procs, q \in Procs :
        /\ pc[p] = "FAILED"
        /\ err[p] = "DatabaseError"
        /\ locked[p]
        /\ printed[p] = <<>>
        /\ executed[p] = <<>>
        /\ pc[q] = "DONE"

\* positions of the migrate command before the run of _migrate_database
BeforeRun == {"MIGRATE", "CHECKED_NOT_LOCKED", "CHECKED", "GUARD_FAILED"}

\* p has begun no transaction, asked for no lock and written nothing
Untouched(p) ==
    /\ txDepth[p] = 0
    /\ ~ locked[p]
    /\ ~ \E l \in locks : l.owner = p
    /\ NoWrites(p)

\* C19: outside dev and test the command goes from its entry through both
\* checks, in order, before it creates the database or begins the run; a
\* check that fails ends the command for good, with no database created, no
\* transaction, no lock call and no write; in dev and test the command goes
\* from its entry to the database creation and no check fails.
C19_ChecksComeFirst ==
    [][\A p \in Procs :
          /\ (pc[p] = "MIGRATE" /\ pc'[p] # pc[p]) =>
                IF env \in {"dev", "test"}
                THEN pc'[p] = "CHECKED"
                ELSE pc'[p] \in {"CHECKED_NOT_LOCKED", "GUARD_FAILED"}
          /\ (pc[p] = "CHECKED_NOT_LOCKED" /\ pc'[p] # pc[p]) =>
                pc'[p] \in {"CHECKED", "GUARD_FAILED"}
          /\ (pc[p] = "CHECKED" /\ pc'[p] # pc[p]) => pc'[p] = "IDLE"
          /\ pc'[p] \in BeforeRun => Untouched(p)'
          /\ (pc[p] # "GUARD_FAILED" /\ pc'[p] = "GUARD_FAILED") =>
                /\ dbVars' = dbVars
                /\ dbExists' = dbExists
          /\ (pc'[p] = "GUARD_FAILED") =>
                /\ err'[p] \in {"UnlockedScriptError", "LockedScriptModifiedError"}
                /\ env = "prod"
          /\ pc[p] = "GUARD_FAILED" => pc'[p] = "GUARD_FAILED"
          /\ (dbExists' # dbExists) =>
                \E q \in Procs : pc[q] = "CHECKED" /\ pc'[q] = "IDLE"]_vars

\* in production one command was stopped by the second check and left the
\* database missing; no run has begun
C19_Witness ==
    \E p \in Procs :
        /\ env = "prod"
        /\ pc[p] = "GUARD_FAILED"
        /\ err[p] = "LockedScriptModifiedError"
        /\ ~ dbExists
        /\ Untouched(p)

====
